---------------------------- MODULE Spec2Model ----------------------------
(***************************************************************************)
(* AnyNumberOf and OneOf (sqlfluff/core/parser/grammar/anyof.py).          *)
(*                                                                         *)
(* A token (segment) is named by a string; the tables below give its leaf  *)
(* segments, the characters of a leaf's raw text and whether it is code.   *)
(* A raw string is a sequence of one-character strings, so that upper      *)
(* casing, stripping and string length are computed, not assumed.          *)
(*                                                                         *)
(* Spec       match, one step per iteration of its loop                    *)
(* SpecSimple simple and _prune_options on the same elements               *)
(* SpecCtx    match, one step per with block entered and left              *)
(***************************************************************************)
EXTENDS Integers, Sequences, FiniteSets, TLC

\* ------------------------------------------------------------- bounds
\* Longest input sequence enumerated exhaustively.
MaxLen == 2
\* Largest min_times / max_times configured.
MaxTimes == 2

\* max_times=None, the default of line 15.
None == -1
\* exclude=None (line 18).
NoExclude == "None"

\* ------------------------------------------------------------- tokens
Range(s) == {s[i] : i \in DOMAIN s}

\* str.upper() on one character.
UpperChar(c) ==
    CASE c = "a" -> "A" [] c = "b" -> "B" [] c = "c" -> "C" [] c = "e" -> "E"
      [] c = "i" -> "I" [] c = "l" -> "L" [] c = "n" -> "N" [] c = "r" -> "R"
      [] c = "s" -> "S" [] c = "t" -> "T" [] OTHER -> c

\* str.upper()
upper(s) == [i \in DOMAIN s |-> UpperChar(s[i])]

IsSpace(c) == c \in {" ", "\n", "\t"}

\* str.strip(): the string without its leading and trailing whitespace.
strip(s) ==
    LET code == {i \in DOMAIN s : ~IsSpace(s[i])}
    IN  IF code = {} THEN <<>>
        ELSE LET lo == CHOOSE i \in code : \A j \in code : i <= j
                 hi == CHOOSE i \in code : \A j \in code : j <= i
             IN  SubSeq(s, lo, hi)

\* The tokens inputs are built from: two keywords and a whitespace.
BaseTokens == {"a", "b", " "}

\* segment.iter_raw_seg(): the leaves of a token, in order.  "ab" is a
\* composite token (an already parsed segment) holding the leaves a and b.
iter_raw_seg(tok) == IF tok = "ab" THEN <<"a", "b">> ELSE <<tok>>

\* segment.raw of a leaf, as characters.  "z" is a zero-width segment (a
\* meta segment such as an indent): its raw text is empty, it is not code.
LeafRaw(leaf) ==
    CASE leaf = "a" -> <<"a">>
      [] leaf = "b" -> <<"b">>
      [] leaf = " " -> <<" ">>
      [] leaf = "z" -> <<>>
      [] leaf = "--" -> <<"-", "-">>
      [] leaf = "select" -> <<"s", "e", "l", "e", "c", "t">>
      [] leaf = "insert" -> <<"i", "n", "s", "e", "r", "t">>

RECURSIVE Concat(_)
\* The concatenation of a sequence of sequences.
Concat(ss) == IF ss = <<>> THEN <<>> ELSE Head(ss) \o Concat(Tail(ss))

\* segment.raw: the raw text of a token is that of its leaves, joined.
raw(tok) ==
    LET ls == iter_raw_seg(tok) IN Concat([i \in DOMAIN ls |-> LeafRaw(ls[i])])

\* segment.raw_upper of a leaf.
raw_upper(leaf) == upper(LeafRaw(leaf))

\* segment.is_code: whitespace and comments are not code.
is_code(tok) == tok \notin {" ", "--", "z"}

\* ------------------------------------------------------- MatchResult
MatchResult(matched, unmatched) ==
    [matched_segments |-> matched, unmatched_segments |-> unmatched]

from_unmatched(unmatched) == MatchResult(<<>>, unmatched)

from_empty == MatchResult(<<>>, <<>>)

\* MatchResult.__bool__: something was matched.
has_match(m) == Len(m.matched_segments) > 0

\* MatchResult.is_complete(): nothing is left unmatched.
is_complete(m) == Len(m.unmatched_segments) = 0

\* MatchResult.raw_matched(): the raw text of the matched segments, joined.
raw_matched(m) ==
    LET ms == m.matched_segments IN Concat([i \in DOMAIN ms |-> raw(ms[i])])

\* helpers.trim_non_code(segments): the leading run of non-code segments,
\* the middle, and the trailing run of non-code segments.
trim_non_code(segs) ==
    LET n == Len(segs)
        codeIdx == {i \in 1..n : is_code(segs[i])}
        pre_idx == IF codeIdx = {} THEN n
                   ELSE (CHOOSE i \in codeIdx : \A j \in codeIdx : i <= j) - 1
        post_idx == IF codeIdx = {} THEN n
                    ELSE CHOOSE i \in codeIdx : \A j \in codeIdx : j <= i
    IN  <<SubSeq(segs, 1, pre_idx), SubSeq(segs, pre_idx + 1, post_idx),
          SubSeq(segs, post_idx + 1, n)>>

\* -------------------------------------------------------- alternatives
\* The matchables a grammar is built from, by name.  Each is a list of
\* patterns over upper-cased leaf strings, tried in order.  "EMPTY" is a
\* nested AnyNumberOf() without elements: it matches nothing, and its simple
\* is the empty tuple (lines 26-32 with no element).
KW_A == <<"A">>
KW_B == <<"B">>
WS == <<" ">>
KW_SELECT == <<"S", "E", "L", "E", "C", "T">>
KW_INSERT == <<"I", "N", "S", "E", "R", "T">>

Patterns(opt) ==
    CASE opt = "A" -> << <<KW_A>> >>
      [] opt = "AB" -> << <<KW_A, KW_B>> >>
      [] opt = "B" -> << <<KW_B>> >>
      [] opt = "BorWS" -> << <<KW_B>>, <<WS>> >>
      [] opt = "NS" -> << <<KW_A, KW_B>> >>
      [] opt = "AZ" -> << <<KW_A, <<>> >> >>
      [] opt = "AAA" -> << <<KW_A, KW_A, KW_A>> >>
      [] opt = "AAAAA" -> << <<KW_A, KW_A, KW_A, KW_A, KW_A>> >>
      [] opt = "SELECT" -> << <<KW_SELECT>> >>
      [] opt = "INSERT" -> << <<KW_INSERT>> >>
      [] opt = "EMPTY" -> <<>>

\* opt.simple(parse_context): unsupported (False), or the upper-cased
\* strings the option can start with.
Unsupported == [supported |-> FALSE, opts |-> <<>>]
Simple(opts) == [supported |-> TRUE, opts |-> opts]

opt_simple(opt) ==
    CASE opt = "A" -> Simple(<<KW_A>>)
      [] opt = "AB" -> Simple(<<KW_A>>)
      [] opt = "B" -> Simple(<<KW_B>>)
      [] opt = "BorWS" -> Simple(<<KW_B, WS>>)
      [] opt = "NS" -> Unsupported
      [] opt = "AZ" -> Simple(<<KW_A>>)
      [] opt = "AAA" -> Simple(<<KW_A>>)
      [] opt = "AAAAA" -> Simple(<<KW_A>>)
      [] opt = "SELECT" -> Simple(<<KW_SELECT>>)
      [] opt = "INSERT" -> Simple(<<KW_INSERT>>)
      [] opt = "EMPTY" -> Simple(<<>>)

\* The upper-cased leaf strings of a token sequence, in order.
Flatten(segs) ==
    LET leaves == Concat([i \in DOMAIN segs |-> iter_raw_seg(segs[i])])
    IN  [i \in DOMAIN leaves |-> raw_upper(leaves[i])]

\* The number of leading tokens of segs whose leaves spell pat (0: none).
PrefixLen(pat, segs) ==
    LET ks == {k \in 1..Len(segs) : Flatten(SubSeq(segs, 1, k)) = pat}
    IN  IF ks = {} THEN 0 ELSE CHOOSE k \in ks : \A j \in ks : k <= j

\* opt.match(segments, parse_context): the first pattern of the option that
\* the input starts with is matched, the rest is left unmatched.
opt_match(opt, segs) ==
    LET pats == Patterns(opt)
        hits == {p \in DOMAIN pats : PrefixLen(pats[p], segs) > 0}
    IN  IF hits = {} THEN from_unmatched(segs)
        ELSE LET p == CHOOSE p \in hits : \A q \in hits : p <= q
                 k == PrefixLen(pats[p], segs)
             IN  MatchResult(SubSeq(segs, 1, k), SubSeq(segs, k + 1, Len(segs)))

\* -------------------------------------------------------------- simple
RECURSIVE simple_from(_, _, _)
\* Lines 27-32: the loop from element k on.  "not simple" (line 29) is true
\* of False and of the empty tuple.
simple_from(elements, k, simple_buff) ==
    IF k > Len(elements) THEN Simple(simple_buff)
    ELSE LET s == opt_simple(elements[k])
         IN  IF ~s.supported \/ s.opts = <<>> THEN Unsupported
             ELSE simple_from(elements, k + 1, simple_buff \o s.opts)

\* AnyNumberOf.simple(parse_context) (lines 21-32).
simple(elements) == simple_from(elements, 1, <<>>)

\* ------------------------------------------------------ _prune_options
\* Lines 44-47 with raw for raw_upper.
str_buff_raw(segments) ==
    LET leaves == Concat([i \in DOMAIN segments |-> iter_raw_seg(segments[i])])
    IN  [i \in DOMAIN leaves |-> LeafRaw(leaves[i])]

\* Lines 44-47: the upper-cased raw of every leaf of the segments.
str_buff(segments) == Flatten(segments)

\* Lines 66-84 without the test of line 66: the anchor check is entered
\* for every candidate that is not whitespace.
check_simple_opt_unguarded(simple_opt, buff) ==
    IF strip(simple_opt) # <<>>
    THEN LET code == {i \in DOMAIN buff : strip(buff[i]) # <<>>}
         IN  IF code = {} THEN "raise"
             ELSE LET first_elem ==
                          buff[CHOOSE i \in code : \A j \in code : i <= j]
                  IN  IF first_elem # simple_opt THEN "skip" ELSE "keep"
    ELSE IF simple_opt \in Range(buff) THEN "keep" ELSE "skip"

\* Lines 66-84 without the anchor check of lines 69-79: a candidate that
\* occurs anywhere in the buffer keeps the option.
check_simple_opt_unanchored(simple_opt, buff) ==
    IF simple_opt \notin Range(buff) THEN "skip" ELSE "keep"

\* Lines 66-84 for one candidate string of a simple option: "keep" the
\* option, "skip" to the next candidate, or "raise" the RuntimeError.
check_simple_opt(simple_opt, buff) ==
    IF simple_opt \notin Range(buff) THEN "skip"
    ELSE IF strip(simple_opt) # <<>>
         THEN LET code == {i \in DOMAIN buff : strip(buff[i]) # <<>>}
              IN  IF code = {} THEN "raise"
                  ELSE LET first_elem ==
                               buff[CHOOSE i \in code : \A j \in code : i <= j]
                       IN  IF first_elem # simple_opt THEN "skip" ELSE "keep"
         ELSE "keep"

RECURSIVE check_simple(_, _, _)
\* Lines 63-89: the for/else over the candidates, from candidate j on.
check_simple(simple_opts, buff, j) ==
    IF j > Len(simple_opts) THEN "prune"
    ELSE LET r == check_simple_opt(simple_opts[j], buff)
         IN  IF r = "skip" THEN check_simple(simple_opts, buff, j + 1) ELSE r

\* Lines 53-89 for one option.
option_verdict(opt, buff) ==
    LET s == opt_simple(opt)
    IN  IF ~s.supported THEN "keep" ELSE check_simple(s.opts, buff, 1)

\* Lines 42-104.  Options are named by their position in self._elements.
\* raised: the RuntimeError of line 76 was raised.
prune_options(elements, segments) ==
    LET buff == str_buff(segments)
        idx == [i \in 1..Len(elements) |-> i]
        keep(i) == option_verdict(elements[i], buff) = "keep"
    IN  [raised |-> \E i \in 1..Len(elements) :
                        option_verdict(elements[i], buff) = "raise",
         available_options |-> SelectSeq(idx, keep)]

\* --------------------------------------------------------- _match_once
\* Line 135 with >= for >: an equally long later match replaces the best.
longer_or_equal(m, best) == Len(raw_matched(m)) >= Len(raw_matched(best))

\* Line 135: m is strictly longer than the best match so far.
longer(m, best) == Len(raw_matched(m)) > Len(raw_matched(best))

RECURSIVE match_options_no_return(_, _, _, _, _, _, _)
\* Lines 124-155 without the return of line 132: a complete match is kept
\* as the best match and the loop goes on.
match_options_no_return(elements, available, segments, k, best_match, tried, chosen) ==
    IF k > Len(available)
    THEN [m |-> IF best_match # <<>> THEN best_match[1]
                ELSE from_unmatched(segments),
          tried |-> tried, chosen |-> chosen]
    ELSE LET opt == available[k]
             m == opt_match(elements[opt], segments)
             next(b, c) == match_options_no_return(
                               elements, available, segments, k + 1, b,
                               Append(tried, opt), c)
         IN  IF has_match(m)
             THEN IF best_match # <<>>
                  THEN IF longer(m, best_match[1])
                       THEN next(<<m>>, opt)
                       ELSE next(best_match, chosen)
                  ELSE next(<<m>>, opt)
             ELSE next(best_match, chosen)

\* best_match is None (<<>>) or holds one MatchResult (<<m>>).
RECURSIVE match_options(_, _, _, _, _, _, _)
\* Lines 124-155: the loop over available_options from position k on.
\* tried: the options matched so far; chosen: the option whose result is
\* best_match (0: none).
match_options(elements, available, segments, k, best_match, tried, chosen) ==
    IF k > Len(available)
    THEN [m |-> IF best_match # <<>> THEN best_match[1]
                ELSE from_unmatched(segments),
          tried |-> tried, chosen |-> chosen]
    ELSE LET opt == available[k]
             m == opt_match(elements[opt], segments)
             next(b, c) == match_options(elements, available, segments, k + 1,
                                         b, Append(tried, opt), c)
         IN  IF is_complete(m)
             THEN [m |-> m, tried |-> Append(tried, opt), chosen |-> opt]
             ELSE IF has_match(m)
                  THEN IF best_match # <<>>
                       THEN IF longer(m, best_match[1])
                            THEN next(<<m>>, opt)
                            ELSE next(best_match, chosen)
                       ELSE next(<<m>>, opt)
                  ELSE next(best_match, chosen)

\* Lines 106-155, with what the call did: the options left by pruning, the
\* options matched, the option whose result is returned.
match_once_call(elements, segments) ==
    LET pruned == prune_options(elements, segments)
        available_options == pruned.available_options
        r == IF available_options = <<>>
             THEN [m |-> from_unmatched(segments), tried |-> <<>>, chosen |-> 0]
             ELSE match_options(elements, available_options, segments, 1,
                                <<>>, <<>>, 0)
    IN  [segments |-> segments, raised |-> pruned.raised,
         available_options |-> available_options,
         tried |-> r.tried, chosen |-> r.chosen, m |-> r.m]

\* AnyNumberOf._match_once(segments, parse_context)
match_once(elements, segments) == match_once_call(elements, segments).m

\* ------------------------------------------------------- configuration
\* Line 176 with "is not None" for the truth value: 0 is a bound.
is_not_None(x) == x # None

\* Python truthiness of max_times (line 176): None and 0 are false.
truthy(x) == x # None /\ x # 0

\* AnyNumberOf.__init__ (lines 14-19); allow_gaps is kept by BaseGrammar.
AnyNumberOf_init(elements, min_t, max_t, gaps, excl) ==
    [cls |-> "AnyNumberOf", elements |-> elements, min_times |-> min_t,
     max_times |-> max_t, allow_gaps |-> gaps, exclude |-> excl]

\* Line 227 without max_times=1.
OneOf_init_unbounded(elements, gaps, excl) ==
    [AnyNumberOf_init(elements, 1, None, gaps, excl) EXCEPT !.cls = "OneOf"]

\* OneOf.__init__ (lines 226-227).
OneOf_init(elements, gaps, excl) ==
    [AnyNumberOf_init(elements, 1, 1, gaps, excl) EXCEPT !.cls = "OneOf"]

\* Lines 166-168 with is_complete() for the truth value of the match.
excluded_if_complete(grammar, segs) ==
    /\ grammar.exclude # NoExclude
    /\ has_match(opt_match(grammar.exclude, segs))
    /\ is_complete(opt_match(grammar.exclude, segs))

\* Lines 166-168: an exclude option is set and matches the segments.
excluded(grammar, segs) ==
    /\ grammar.exclude # NoExclude
    /\ has_match(opt_match(grammar.exclude, segs))

\* Line 176 with > for >=.
max_reached_late(grammar, n) ==
    truthy(grammar.max_times) /\ n > grammar.max_times

\* Line 176: as many matches as allowed.
max_reached(grammar, n) ==
    truthy(grammar.max_times) /\ n >= grammar.max_times

\* Lines 185 and 210: the hurdle of min_times is met.
hurdle_met(grammar, n) == n >= grammar.min_times

\* Lines 194-199 without n_matches > 0 in the condition of line 194.
skip_gaps_always(grammar, n, unmatched) ==
    IF grammar.allow_gaps
    THEN LET t == trim_non_code(unmatched)
         IN  [pre_seg |-> t[1], unmatched_segments |-> t[2] \o t[3]]
    ELSE [pre_seg |-> <<>>, unmatched_segments |-> unmatched]

\* Lines 194-199 without self.allow_gaps in the condition of line 194.
skip_gaps_unasked(grammar, n, unmatched) ==
    IF n > 0
    THEN LET t == trim_non_code(unmatched)
         IN  [pre_seg |-> t[1], unmatched_segments |-> t[2] \o t[3]]
    ELSE [pre_seg |-> <<>>, unmatched_segments |-> unmatched]

\* Lines 194-199: pre_seg and the segments the next match is tried on.
skip_gaps(grammar, n, unmatched) ==
    IF n > 0 /\ grammar.allow_gaps
    THEN LET t == trim_non_code(unmatched)
         IN  [pre_seg |-> t[1], unmatched_segments |-> t[2] \o t[3]]
    ELSE [pre_seg |-> <<>>, unmatched_segments |-> unmatched]

\* Line 212 without pre_seg: the skipped segments are dropped.
put_back_nothing(gap) == gap.unmatched_segments

\* Line 212: the remainder when a repetition fails at or above min_times,
\* the skipped segments and then the segments the match was tried on.
put_back(gap) == gap.pre_seg \o gap.unmatched_segments

\* Line 204 missing: unmatched_segments stays what _match_once was given.
next_unmatched_stale(m, given) == given

\* Line 204: the next repetition starts on what the match left unmatched;
\* given: the segments _match_once was given.
next_unmatched(m, given) == m.unmatched_segments

\* Line 203 with = for +=: the new match replaces what was matched.
match_replace(m, segs) == MatchResult(segs, m.unmatched_segments)

\* MatchResult.__add__ with a tuple of segments (line 203).
match_add(m, segs) ==
    MatchResult(m.matched_segments \o segs, m.unmatched_segments)

\* _match_once without _prune_options: every element is matched, in the
\* order of declaration.
match_once_unpruned(elements, segments) ==
    match_options(elements, [i \in 1..Len(elements) |-> i], segments, 1,
                  <<>>, <<>>, 0).m

RECURSIVE match_loop(_, _, _, _, _)
\* Lines 175-216 as a function of the loop's variables; prune: _match_once
\* prunes its options (as the code does) or not.
match_loop(grammar, prune, matched, unmatched, n) ==
    IF max_reached(grammar, n) THEN MatchResult(matched, unmatched)
    ELSE IF Len(unmatched) = 0
         THEN IF hurdle_met(grammar, n) THEN MatchResult(matched, unmatched)
              ELSE from_unmatched(unmatched)
         ELSE LET gap == skip_gaps(grammar, n, unmatched)
                  m == IF prune
                       THEN match_once(grammar.elements, gap.unmatched_segments)
                       ELSE match_once_unpruned(grammar.elements,
                                                gap.unmatched_segments)
              IN  IF has_match(m)
                  THEN match_loop(grammar, prune,
                                  matched \o gap.pre_seg \o m.matched_segments,
                                  next_unmatched(m, gap.unmatched_segments),
                                  n + 1)
                  ELSE IF hurdle_met(grammar, n)
                       THEN MatchResult(matched, put_back(gap))
                       ELSE from_unmatched(gap.unmatched_segments)

\* Lines 157-216 as a function: AnyNumberOf.match(segments, parse_context).
match(grammar, prune, segs) ==
    IF excluded(grammar, segs) THEN from_unmatched(segs)
    ELSE match_loop(grammar, prune, <<>>, segs, 0)

\* ------------------------------------------------------------- inputs
Pool == {"A", "AB", "BorWS", "NS"}

SeqsUpTo(S, n) == UNION {[1..k -> S] : k \in 0..n}

\* The grammars: one option of the pool, or two different ones in either
\* order, and the grammars of the examples.
Grammars ==
    {<<o>> : o \in Pool}
        \cup {g \in [1..2 -> Pool] : g[1] # g[2]}
        \cup {<<"SELECT", "INSERT">>, <<"AAA", "AAAAA">>, <<"A", "AB", "B">>,
              <<"A", "AZ">>}

Excludes == {NoExclude, "B"}

\* Longer inputs, a composite token, a comment, and the inputs of the
\* examples.
Examples ==
    {<<"select", "insert">>, <<"a", "a", "a", "a", "a">>, <<"ab", "a">>,
     <<"a", "--", " ", "a">>, <<"a", " ", "a">>, <<"a", "a", "a">>,
     <<"a", "b", "a">>, <<"a", " ", " ", "b">>, <<"b", " ", "a", "b">>,
     <<"a", "b", " ">>, <<"a", "z", "b">>}

\* The inputs: every sequence of base tokens up to MaxLen, and the examples.
Inputs == SeqsUpTo(BaseTokens, MaxLen) \cup Examples

Configs ==
    {AnyNumberOf_init(e, mn, mx, g, x) :
        e \in Grammars, mn \in 0..MaxTimes, mx \in {None} \cup 0..MaxTimes,
        g \in BOOLEAN, x \in Excludes}
    \cup {OneOf_init(e, g, x) : e \in Grammars, g \in BOOLEAN, x \in Excludes}

\* ------------------------------------------------------------ context
\* The parse context match is given, at depth d, with the local variables
\* of _match_once: the options left by pruning, the position k of the for
\* loop of line 124, best_match and m.
new_context(d) ==
    [entry |-> d, depth |-> d, acquired |-> 0, released |-> 0,
     available_options |-> <<>>, k |-> 0,
     best_match |-> <<>>, m |-> from_empty]

\* parse_context.deeper_match().__enter__: a child context, one deeper.
deeper_match_enter(c) ==
    [c EXCEPT !.depth = @ + 1, !.acquired = @ + 1]

\* parse_context.deeper_match().__exit__: the child context is released.
deeper_match_exit(c) ==
    [c EXCEPT !.depth = @ - 1, !.released = @ + 1]

\* A with block that is left without releasing its context.
with_exit_leaking(c) == c

\* Lines 125-127 and 167-169: a with block is left, at its end or by the
\* return of line 169, and the context manager's __exit__ is run.
with_exit(c) == deeper_match_exit(c)

\* -------------------------------------------------------------- state
VARIABLES
    self,               \* the grammar object: its configuration
    segments,           \* the argument of match
    pc,                 \* "start", "loop", "done" or "raised"
    matched_segments,   \* line 172: a MatchResult
    unmatched_segments, \* line 173
    n_matches,          \* line 174
    pre_seg,            \* lines 196, 199
    result,             \* the MatchResult returned (<<>> before the return)
    exit,               \* the line of the return statement taken (0: none)
    once_log,           \* the calls of _match_once so far, in order
    exclude_log,        \* the segments the exclude option was matched on
    ctx                 \* the parse context and the position inside
                        \* _match_once, for the steps of SpecCtx

vars == <<self, segments, pc, matched_segments, unmatched_segments, n_matches,
          pre_seg, result, exit, once_log, exclude_log, ctx>>

Init ==
    /\ self \in Configs
    /\ segments \in Inputs
    /\ pc = "start"
    /\ matched_segments = from_empty
    /\ unmatched_segments = <<>>
    /\ n_matches = 0
    /\ pre_seg = <<>>
    /\ result = <<>>
    /\ exit = 0
    /\ once_log = <<>>
    /\ exclude_log = <<>>
    /\ ctx = new_context(0)

\* What once_log keeps of a call of _match_once: the call, and the loop's
\* n_matches, unmatched_segments (before gaps are skipped) and pre_seg.
LogEntry(call, gap) ==
    call @@ [n |-> n_matches, before |-> unmatched_segments,
             pre_seg |-> gap.pre_seg]

Return(m, line) ==
    /\ result' = <<m>>
    /\ exit' = line
    /\ pc' = "done"

\* Lines 166-169: the exclude option matches, the grammar does not.
MatchExcluded ==
    /\ pc = "start"
    /\ excluded(self, segments)
    /\ exclude_log' = Append(exclude_log, segments)
    /\ Return(from_unmatched(segments), 169)
    /\ UNCHANGED ctx
    /\ UNCHANGED <<self, segments, matched_segments, unmatched_segments,
                   n_matches, pre_seg, once_log>>

\* Lines 166-174: no exclude option or it does not match; the loop begins.
MatchBegin ==
    /\ pc = "start"
    /\ ~excluded(self, segments)
    /\ exclude_log' = IF self.exclude # NoExclude
                      THEN Append(exclude_log, segments) ELSE exclude_log
    /\ matched_segments' = from_empty
    /\ unmatched_segments' = segments
    /\ n_matches' = 0
    /\ pc' = "loop"
    /\ UNCHANGED ctx
    /\ UNCHANGED <<self, segments, pre_seg, result, exit, once_log>>

\* Lines 176-180.
ReturnMaxReached ==
    /\ pc = "loop"
    /\ max_reached(self, n_matches)
    /\ Return(MatchResult(matched_segments.matched_segments,
                          unmatched_segments), 178)
    /\ UNCHANGED ctx
    /\ UNCHANGED <<self, segments, matched_segments, unmatched_segments,
                   n_matches, pre_seg, once_log, exclude_log>>

\* Lines 183-188.
ReturnExhausted ==
    /\ pc = "loop"
    /\ ~max_reached(self, n_matches)
    /\ Len(unmatched_segments) = 0
    /\ hurdle_met(self, n_matches)
    /\ Return(MatchResult(matched_segments.matched_segments,
                          unmatched_segments), 186)
    /\ UNCHANGED ctx
    /\ UNCHANGED <<self, segments, matched_segments, unmatched_segments,
                   n_matches, pre_seg, once_log, exclude_log>>

\* Lines 183-191.
ReturnExhaustedBelowMin ==
    /\ pc = "loop"
    /\ ~max_reached(self, n_matches)
    /\ Len(unmatched_segments) = 0
    /\ ~hurdle_met(self, n_matches)
    /\ Return(from_unmatched(unmatched_segments), 191)
    /\ UNCHANGED ctx
    /\ UNCHANGED <<self, segments, matched_segments, unmatched_segments,
                   n_matches, pre_seg, once_log, exclude_log>>

\* Lines 194-205: a repetition matches.
Repeat ==
    /\ pc = "loop"
    /\ ~max_reached(self, n_matches)
    /\ Len(unmatched_segments) # 0
    /\ \E gap \in {skip_gaps(self, n_matches, unmatched_segments)} :
       \E call \in {match_once_call(self.elements, gap.unmatched_segments)} :
           /\ ~call.raised
           /\ has_match(call.m)
           /\ pre_seg' = gap.pre_seg
           /\ once_log' = Append(once_log, LogEntry(call, gap))
           /\ matched_segments' =
                  match_add(matched_segments,
                            gap.pre_seg \o call.m.matched_segments)
           /\ unmatched_segments' =
                  next_unmatched(call.m, gap.unmatched_segments)
           /\ n_matches' = n_matches + 1
    /\ UNCHANGED ctx
    /\ UNCHANGED <<self, segments, pc, result, exit, exclude_log>>

\* Lines 194-201, 206-216: a repetition does not match (or _prune_options
\* raises, and the error leaves match).
StopRepeating ==
    /\ pc = "loop"
    /\ ~max_reached(self, n_matches)
    /\ Len(unmatched_segments) # 0
    /\ \E gap \in {skip_gaps(self, n_matches, unmatched_segments)} :
       \E call \in {match_once_call(self.elements, gap.unmatched_segments)} :
           /\ call.raised \/ ~has_match(call.m)
           /\ pre_seg' = gap.pre_seg
           /\ unmatched_segments' = gap.unmatched_segments
           /\ once_log' = Append(once_log, LogEntry(call, gap))
           /\ IF call.raised
              THEN /\ pc' = "raised"
                   /\ UNCHANGED <<result, exit>>
              ELSE IF hurdle_met(self, n_matches)
                   THEN Return(MatchResult(
                                   matched_segments.matched_segments,
                                   put_back(gap)), 211)
                   ELSE Return(from_unmatched(gap.unmatched_segments), 216)
    /\ UNCHANGED ctx
    /\ UNCHANGED <<self, segments, matched_segments, n_matches, exclude_log>>

Next ==
    \/ MatchExcluded
    \/ MatchBegin
    \/ ReturnMaxReached
    \/ ReturnExhausted
    \/ ReturnExhaustedBelowMin
    \/ Repeat
    \/ StopRepeating

Spec == Init /\ [][Next]_vars

\* ------------------------------------------- simple and _prune_options
\* The grammar as an option of an enclosing grammar: the enclosing grammar
\* calls simple, and _prune_options is run on the same elements.
SimpleGrammars == SeqsUpTo(Pool \cup {"EMPTY"}, 2)

InitSimple ==
    /\ self \in {AnyNumberOf_init(e, 0, None, TRUE, NoExclude) :
                    e \in SimpleGrammars}
    /\ segments \in Inputs
    /\ pc = "start"
    /\ matched_segments = from_empty
    /\ unmatched_segments = <<>>
    /\ n_matches = 0
    /\ pre_seg = <<>>
    /\ result = <<>>
    /\ exit = 0
    /\ once_log = <<>>
    /\ exclude_log = <<>>
    /\ ctx = new_context(0)

\* Lines 21-32: result holds what simple returns.
SimpleCall ==
    /\ pc = "start"
    /\ \E r \in {simple(self.elements)} : result' = <<r>>
    /\ pc' = "simple"
    /\ UNCHANGED ctx
    /\ UNCHANGED <<self, segments, matched_segments, unmatched_segments,
                   n_matches, pre_seg, exit, once_log, exclude_log>>

\* Lines 42-104: once_log holds what _prune_options returns on segments.
PruneCall ==
    /\ pc = "simple"
    /\ \E r \in {prune_options(self.elements, segments)} :
           once_log' = <<r>>
    /\ pc' = "pruned"
    /\ UNCHANGED ctx
    /\ UNCHANGED <<self, segments, matched_segments, unmatched_segments,
                   n_matches, pre_seg, result, exit, exclude_log>>

NextSimple ==
    \/ SimpleCall
    \/ PruneCall

SpecSimple == InitSimple /\ [][NextSimple]_vars

\* --------------------------------------- match, one with block at a time
\* match with a step for entering and for leaving every with block.
CtxConfigs ==
    {c \in Configs : c.min_times <= 1 /\ c.max_times \in {None, 1}}

InitCtx ==
    /\ self \in CtxConfigs
    /\ segments \in Inputs
    /\ pc = "start"
    /\ matched_segments = from_empty
    /\ unmatched_segments = <<>>
    /\ n_matches = 0
    /\ pre_seg = <<>>
    /\ result = <<>>
    /\ exit = 0
    /\ once_log = <<>>
    /\ exclude_log = <<>>
    /\ ctx \in {new_context(d) : d \in 0..1}

\* Lines 166, 172-174: there is no exclude option; the loop begins.
CtxBegin ==
    /\ pc = "start"
    /\ self.exclude = NoExclude
    /\ matched_segments' = from_empty
    /\ unmatched_segments' = segments
    /\ n_matches' = 0
    /\ pc' = "loop"
    /\ UNCHANGED <<self, segments, pre_seg, result, exit, once_log,
                   exclude_log, ctx>>

\* Lines 166-167: the with block of the exclude option is entered.
CtxExcludeEnter ==
    /\ pc = "start"
    /\ self.exclude # NoExclude
    /\ ctx' = deeper_match_enter(ctx)
    /\ pc' = "exclude_with"
    /\ UNCHANGED <<self, segments, matched_segments, unmatched_segments,
                   n_matches, pre_seg, result, exit, once_log, exclude_log>>

\* Lines 168-169: the exclude option matches, and match returns from inside
\* the with block.
CtxExcludeReturn ==
    /\ pc = "exclude_with"
    /\ has_match(opt_match(self.exclude, segments))
    /\ ctx' = with_exit(ctx)
    /\ exclude_log' = Append(exclude_log, segments)
    /\ Return(from_unmatched(segments), 169)
    /\ UNCHANGED <<self, segments, matched_segments, unmatched_segments,
                   n_matches, pre_seg, once_log>>

\* Lines 168, 172-174: the exclude option does not match; the with block is
\* left at its end and the loop begins.
CtxExcludeExit ==
    /\ pc = "exclude_with"
    /\ ~has_match(opt_match(self.exclude, segments))
    /\ ctx' = with_exit(ctx)
    /\ exclude_log' = Append(exclude_log, segments)
    /\ matched_segments' = from_empty
    /\ unmatched_segments' = segments
    /\ n_matches' = 0
    /\ pc' = "loop"
    /\ UNCHANGED <<self, segments, pre_seg, result, exit, once_log>>

\* Lines 194-201 and 117: gaps are skipped, _match_once is called and prunes
\* its options.
CtxMatchOnce ==
    /\ pc = "loop"
    /\ ~max_reached(self, n_matches)
    /\ Len(unmatched_segments) # 0
    /\ \E gap \in {skip_gaps(self, n_matches, unmatched_segments)} :
       \E pruned \in {prune_options(self.elements, gap.unmatched_segments)} :
           /\ pre_seg' = gap.pre_seg
           /\ unmatched_segments' = gap.unmatched_segments
           /\ ctx' = [ctx EXCEPT
                          !.available_options = pruned.available_options,
                          !.k = 1, !.best_match = <<>>]
           /\ pc' = IF pruned.raised THEN "raised" ELSE "for"
    /\ UNCHANGED <<self, segments, matched_segments, n_matches, result, exit,
                   once_log, exclude_log>>

\* Lines 124-125: the next option left; its with block is entered.
CtxOptEnter ==
    /\ pc = "for"
    /\ ctx.k <= Len(ctx.available_options)
    /\ ctx' = deeper_match_enter(ctx)
    /\ pc' = "opt_with"
    /\ UNCHANGED <<self, segments, matched_segments, unmatched_segments,
                   n_matches, pre_seg, result, exit, once_log, exclude_log>>

\* Lines 126-127: the option is matched with the child context, and the
\* with block is left.
CtxOptExit ==
    /\ pc = "opt_with"
    /\ \E m \in {opt_match(self.elements[ctx.available_options[ctx.k]],
                            unmatched_segments)} :
           ctx' = [with_exit(ctx) EXCEPT !.m = m]
    /\ pc' = "opt_done"
    /\ UNCHANGED <<self, segments, matched_segments, unmatched_segments,
                   n_matches, pre_seg, result, exit, once_log, exclude_log>>

\* Lines 202-216 for the result m of _match_once.
AfterMatchOnce(m) ==
    IF has_match(m)
    THEN /\ matched_segments' =
                match_add(matched_segments, pre_seg \o m.matched_segments)
         /\ unmatched_segments' = next_unmatched(m, unmatched_segments)
         /\ n_matches' = n_matches + 1
         /\ pc' = "loop"
         /\ UNCHANGED <<result, exit>>
    ELSE /\ IF hurdle_met(self, n_matches)
            THEN Return(MatchResult(
                            matched_segments.matched_segments,
                            put_back([pre_seg |-> pre_seg,
                                      unmatched_segments |->
                                          unmatched_segments])), 211)
            ELSE Return(from_unmatched(unmatched_segments), 216)
         /\ UNCHANGED <<matched_segments, unmatched_segments, n_matches>>

\* Lines 130-132: the match is complete and _match_once returns it.
CtxOptComplete ==
    /\ pc = "opt_done"
    /\ is_complete(ctx.m)
    /\ AfterMatchOnce(ctx.m)
    /\ UNCHANGED <<self, segments, pre_seg, once_log, exclude_log, ctx>>

\* Lines 133-139: the match is not complete; it becomes best_match when it
\* is the first or longer, and the for loop goes on.
CtxOptNext ==
    /\ pc = "opt_done"
    /\ ~is_complete(ctx.m)
    /\ ctx' = [ctx EXCEPT
                   !.k = @ + 1,
                   !.best_match =
                       IF has_match(ctx.m)
                              /\ (ctx.best_match = <<>>
                                      \/ longer(ctx.m, ctx.best_match[1]))
                       THEN <<ctx.m>> ELSE @]
    /\ pc' = "for"
    /\ UNCHANGED <<self, segments, matched_segments, unmatched_segments,
                   n_matches, pre_seg, result, exit, once_log, exclude_log>>

\* Lines 120-121 and 151-155: no option is left (or none was), and
\* _match_once returns best_match, or unmatched.
CtxForEnd ==
    /\ pc = "for"
    /\ ctx.k > Len(ctx.available_options)
    /\ AfterMatchOnce(IF ctx.best_match # <<>> THEN ctx.best_match[1]
                      ELSE from_unmatched(unmatched_segments))
    /\ UNCHANGED <<self, segments, pre_seg, once_log, exclude_log, ctx>>

NextCtx ==
    \/ CtxBegin
    \/ CtxExcludeEnter
    \/ CtxExcludeReturn
    \/ CtxExcludeExit
    \/ ReturnMaxReached
    \/ ReturnExhausted
    \/ ReturnExhaustedBelowMin
    \/ CtxMatchOnce
    \/ CtxOptEnter
    \/ CtxOptExit
    \/ CtxOptComplete
    \/ CtxOptNext
    \/ CtxForEnd

SpecCtx == InitCtx /\ [][NextCtx]_vars

\* ------------------------------------------------------------- claims
Done == pc = "done"

Returned == result[1]

\* The successful calls of _match_once so far.
Successes == {i \in DOMAIN once_log : has_match(once_log[i].m)}

\* C1: every outcome match returns satisfies matched ++ remainder = the
\* original input, on every return path.
C1_Containment ==
    Done => Returned.matched_segments \o Returned.unmatched_segments = segments

\* C2: when the loop stops below min_times (a repetition fails, or the input
\* runs out), match returns matched empty and the full original input as
\* remainder.
C2_MinimumEnforcement ==
    (Done /\ self.min_times > 0 /\ exit \in {191, 216})
        => Returned = from_unmatched(segments)

\* C3: with max_times = m >= 1 there are never more than m successful
\* repetitions; once m is reached match returns what is matched so far and
\* all the unconsumed input; and a non-empty match is returned only with
\* min_times <= n_matches (<= m).
C3_RepetitionBounds ==
    /\ Cardinality(Successes) = n_matches
    /\ self.max_times >= 1 => n_matches <= self.max_times
    /\ (Done /\ self.max_times >= 1 /\ n_matches >= self.max_times)
           => /\ exit = 178
              /\ Returned = MatchResult(matched_segments.matched_segments,
                                        unmatched_segments)
              /\ Returned.matched_segments \o Returned.unmatched_segments
                     = segments
    /\ (Done /\ has_match(Returned)
             /\ (~truthy(self.max_times) \/ self.max_times >= self.min_times))
           => /\ self.min_times <= n_matches
              /\ truthy(self.max_times) => n_matches <= self.max_times

\* C3 witness: match stopped at max_times although the remainder would
\* match once more.
C3_Witness ==
    /\ Done /\ exit = 178 /\ self.max_times = 2 /\ n_matches = 2
    /\ has_match(match_once(self.elements, Returned.unmatched_segments))

\* The function match is the state machine: the same result.
MatchIsTheStateMachine == Done => Returned = match(self, TRUE, segments)

\* The options of the model, and every sequence _match_once can be given.
AllOpts == Pool \cup {"B", "AAA", "AAAAA", "SELECT", "INSERT", "AZ"}

Suffixes == UNION {{SubSeq(t, k, Len(t)) : k \in 1..(Len(t) + 1)} : t \in Inputs}

\* The first string of buff that is not whitespace (<<>>: none).
FirstNonWhitespace(buff) ==
    LET code == {i \in DOMAIN buff : strip(buff[i]) # <<>>}
    IN  IF code = {} THEN <<>>
        ELSE buff[CHOOSE i \in code : \A j \in code : i <= j]

\* The options whose declared set is a true first-token set: the option
\* matches only inputs whose first non-whitespace leaf string is in the set.
\* Options without a set are not pruned and need no such set.
TrueFirstOpts ==
    {o \in AllOpts :
        opt_simple(o).supported =>
            \A t \in Suffixes :
                has_match(opt_match(o, t))
                    => FirstNonWhitespace(Flatten(t))
                           \in Range(opt_simple(o).opts)}

TrueFirstSets == \A i \in DOMAIN self.elements : self.elements[i] \in TrueFirstOpts

\* C4: with true first-token sets, _match_once returns what it returns
\* without pruning, and so does match.
C4_PruningSoundness ==
    TrueFirstSets =>
        /\ \A i \in DOMAIN once_log :
               once_log[i].m
                   = match_once_unpruned(self.elements, once_log[i].segments)
        /\ Done => Returned = match(self, FALSE, segments)

\* C4 witness: an option was pruned, another one matched, and match returned.
C4_Witness ==
    /\ TrueFirstSets /\ Done /\ once_log # <<>>
    /\ Len(once_log[1].available_options) < Len(self.elements)
    /\ has_match(once_log[1].m)

\* The result of option i of the grammar on the segments of a call.
OptResult(call, i) == opt_match(self.elements[i], call.segments)

\* The positions in available_options of the options with a complete match.
CompleteAt(call) ==
    {k \in DOMAIN call.available_options :
        is_complete(OptResult(call, call.available_options[k]))}

\* C5: the options left by pruning are matched in the order of declaration;
\* the first complete match is returned and no later option is matched.
C5_FirstCompleteWins ==
    \A c \in DOMAIN once_log :
        LET call == once_log[c]
            av == call.available_options
            done == CompleteAt(call)
        IN  /\ \A k \in 1..(Len(av) - 1) : av[k] < av[k + 1]
            /\ IF done = {} THEN call.tried = av
               ELSE LET k == CHOOSE k \in done : \A j \in done : k <= j
                    IN  /\ call.tried = SubSeq(av, 1, k)
                        /\ call.chosen = av[k]
                        /\ call.m = OptResult(call, av[k])

\* C5 witness: A (declared first) matches 3 of 5 tokens, B matches all 5 and
\* B's complete outcome is returned.
C5_Witness ==
    /\ self.elements = <<"AAA", "AAAAA">>
    /\ segments = <<"a", "a", "a", "a", "a">>
    /\ once_log # <<>>
    /\ Len(OptResult(once_log[1], 1).matched_segments) = 3
    /\ once_log[1].tried = <<1, 2>>
    /\ once_log[1].m = MatchResult(segments, <<>>)

\* The options left by pruning that match something of the call's segments.
Partial(call) ==
    {i \in Range(call.available_options) : has_match(OptResult(call, i))}

TokenLength(call, i) == Len(OptResult(call, i).matched_segments)

\* The number of characters of the raw text option i matches in a call.
RawLength(call, i) == Len(raw_matched(OptResult(call, i)))

\* C6 as claimed, with the length of a match counted in tokens: without a
\* complete match, _match_once returns the outcome of the earliest declared
\* option among those with the most matched tokens, and a failure over its
\* input when no option matches anything.
C6_LongestPartialFirstDeclared ==
    \A c \in DOMAIN once_log :
        LET call == once_log[c]
            best == {i \in Partial(call) :
                        \A j \in Partial(call) :
                            TokenLength(call, j) <= TokenLength(call, i)}
        IN  CompleteAt(call) = {} =>
                IF Partial(call) = {}
                THEN /\ call.chosen = 0
                     /\ call.m = from_unmatched(call.segments)
                ELSE /\ call.chosen = CHOOSE i \in best : \A j \in best : i <= j
                     /\ call.m = OptResult(call, call.chosen)

\* C6, amended: the length of a match is the number of characters of its
\* raw text (line 135).  Without a complete match, _match_once returns the
\* outcome of the earliest declared option among those whose match has the
\* longest raw text, and a failure over its input when no option matches
\* anything.
C6_LongestRawFirstDeclared ==
    \A c \in DOMAIN once_log :
        LET call == once_log[c]
            best == {i \in Partial(call) :
                        \A j \in Partial(call) :
                            RawLength(call, j) <= RawLength(call, i)}
        IN  CompleteAt(call) = {} =>
                IF Partial(call) = {}
                THEN /\ call.chosen = 0
                     /\ call.m = from_unmatched(call.segments)
                ELSE /\ call.chosen = CHOOSE i \in best : \A j \in best : i <= j
                     /\ call.m = OptResult(call, call.chosen)

\* C6 witness: "a" or "a z" on [a, z, b], z with empty raw text: the second
\* option matches more tokens, both match one character, and the outcome
\* of the first is returned.
C6_Witness ==
    /\ Len(once_log) >= 1
    /\ self.elements = <<"A", "AZ">>
    /\ once_log[1].segments = <<"a", "z", "b">>
    /\ CompleteAt(once_log[1]) = {}
    /\ Partial(once_log[1]) = {1, 2}
    /\ TokenLength(once_log[1], 1) < TokenLength(once_log[1], 2)
    /\ RawLength(once_log[1], 1) = RawLength(once_log[1], 2)
    /\ once_log[1].chosen = 1
    /\ once_log[1].m = MatchResult(<<"a">>, <<"z", "b">>)

\* The exclude option is set and matches something of the original input.
ExcludeMatches ==
    /\ self.exclude # NoExclude
    /\ has_match(opt_match(self.exclude, segments))

\* C7: when the exclude option matches the original input (completely or
\* not), match fails over the original input and no option is tried; the
\* exclude option is matched once, on the original input, and never again.
C7_ExclusionVeto ==
    /\ exclude_log = IF self.exclude # NoExclude /\ pc # "start"
                     THEN <<segments>> ELSE <<>>
    /\ (ExcludeMatches /\ pc # "start")
           => /\ Done /\ exit = 169
              /\ Returned = from_unmatched(segments)
              /\ once_log = <<>>

\* C7 witness: min_times = 0, the exclude option matches a part of the input
\* that the options would match, and match has failed.
C7_Witness ==
    /\ Done /\ ExcludeMatches /\ self.min_times = 0
    /\ ~is_complete(opt_match(self.exclude, segments))
    /\ has_match(match_once_unpruned(self.elements, segments))
    /\ Returned = from_unmatched(segments)

\* No option of the grammar matches anything at the start of the input.
NoOptionMatches ==
    \A i \in DOMAIN self.elements :
        ~has_match(opt_match(self.elements[i], segments))

\* C8: with min_times = 0, no matching exclude and no option matching at the
\* start, match returns matched empty and the full input as remainder, and
\* does not raise.
C8_ZeroRepetitions ==
    (self.min_times = 0 /\ ~ExcludeMatches /\ NoOptionMatches)
        => /\ pc # "raised"
           /\ Done => Returned = MatchResult(<<>>, segments)

\* C8 witness: zero repetitions of a non-empty input that starts with
\* whitespace, accepted.
C8_Witness ==
    /\ Done /\ self.min_times = 0 /\ ~ExcludeMatches /\ NoOptionMatches
    /\ self.allow_gaps /\ Len(segments) >= 2 /\ ~is_code(segments[1])
    /\ Returned = MatchResult(<<>>, segments)

\* C9 as stated: OneOf.match calls _match_once exactly once, on the input as
\* it is, and returns the result of that call.
C9_OneOfCallsOnce ==
    (self.cls = "OneOf" /\ Done /\ ~ExcludeMatches)
        => /\ Len(once_log) = 1
           /\ once_log[1].segments = segments
           /\ Returned = once_log[1].m

\* C9 amended: OneOf is AnyNumberOf with min_times = 1 and max_times = 1; on
\* a non-empty input OneOf.match calls _match_once exactly once, on the input
\* as it is, and returns the result of that call; on the empty input it does
\* not call _match_once and returns matched empty, remainder empty.
C9_OneOfExactness ==
    self.cls = "OneOf" =>
        /\ self.min_times = 1 /\ self.max_times = 1
        /\ Len(once_log) <= 1
        /\ (Done /\ ~ExcludeMatches) =>
               IF segments = <<>>
               THEN once_log = <<>> /\ Returned = from_unmatched(<<>>)
               ELSE /\ Len(once_log) = 1
                    /\ once_log[1].pre_seg = <<>>
                    /\ once_log[1].segments = segments
                    /\ Returned = once_log[1].m
        /\ (Done /\ ~ExcludeMatches /\ self.elements = <<"SELECT", "INSERT">>
                 /\ segments = <<"select", "insert">>)
               => Returned = MatchResult(<<"select">>, <<"insert">>)

\* C9 witness: OneOf("select", "insert") on [select, insert] has returned.
C9_Witness ==
    /\ self.cls = "OneOf" /\ Done /\ self.allow_gaps
    /\ self.elements = <<"SELECT", "INSERT">>
    /\ segments = <<"select", "insert">>
    /\ Len(once_log) = 1
    /\ Returned = MatchResult(<<"select">>, <<"insert">>)

\* The leading run of non-code tokens of a sequence.
LeadingNonCode(segs) ==
    LET runs == {k \in 0..Len(segs) : \A i \in 1..k : ~is_code(segs[i])}
    IN  SubSeq(segs, 1, CHOOSE k \in runs : \A j \in runs : j <= k)

RECURSIVE MatchedByLog(_)
\* What the successful calls of a log add to the match: for each, the
\* skipped tokens and then the tokens matched.
MatchedByLog(log) ==
    IF log = <<>> THEN <<>>
    ELSE IF has_match(Head(log).m)
         THEN Head(log).pre_seg \o Head(log).m.matched_segments
                  \o MatchedByLog(Tail(log))
         ELSE MatchedByLog(Tail(log))

\* C10: with allow_gaps the whole leading run of non-code tokens is skipped
\* before every repetition but the first, and is matched, before the new
\* match, when the repetition succeeds; without allow_gaps nothing is
\* skipped and _match_once is given the remainder of the previous match.
C10_GapSkipping ==
    /\ \A c \in DOMAIN once_log :
           LET e == once_log[c]
           IN  /\ e.n = c - 1
               /\ e.before = IF c = 1 THEN segments
                             ELSE once_log[c - 1].m.unmatched_segments
               /\ IF c > 1 /\ self.allow_gaps
                  THEN /\ e.pre_seg = LeadingNonCode(e.before)
                       /\ e.pre_seg \o e.segments = e.before
                  ELSE e.pre_seg = <<>> /\ e.segments = e.before
    /\ matched_segments.matched_segments = MatchedByLog(once_log)
    /\ (Done /\ self.elements = <<"A">> /\ self.min_times = 2
             /\ self.max_times \notin {1} /\ self.exclude = NoExclude
             /\ segments = <<"a", " ", "a">>)
           => IF self.allow_gaps
              THEN Returned = MatchResult(<<"a", " ", "a">>, <<>>)
              ELSE ~has_match(Returned) /\ n_matches = 1

\* C10 witness: "a" twice with a whitespace in between, min_times = 2 and
\* allow_gaps: all three tokens are matched.
C10_Witness ==
    /\ Done /\ self.elements = <<"A">> /\ self.min_times = 2
    /\ self.allow_gaps /\ segments = <<"a", " ", "a">>
    /\ Len(once_log) = 2 /\ once_log[2].pre_seg = <<" ">>
    /\ Returned = MatchResult(<<"a", " ", "a">>, <<>>)

\* The strings of the elements' lookahead sets, in the order of declaration.
SimpleUnion(elements) ==
    Concat([i \in DOMAIN elements |-> opt_simple(elements[i]).opts])

\* C11: simple returns the union (concatenation) of the elements' lookahead
\* sets when every element reports a set, and unsupported when some element
\* reports unsupported; _prune_options on the same elements retains the
\* unsupported ones and prunes among the supported ones.
C11_AllOrNothing ==
    LET elements == self.elements
        supported == {i \in DOMAIN elements : opt_simple(elements[i]).supported}
    IN  /\ pc \in {"simple", "pruned"} =>
               IF supported = DOMAIN elements
               THEN result[1] = Simple(SimpleUnion(elements))
               ELSE result[1] = Unsupported
        /\ pc = "pruned" =>
               /\ ~once_log[1].raised
               /\ \A i \in DOMAIN elements \ supported :
                      i \in Range(once_log[1].available_options)
               /\ \A i \in supported :
                      i \in Range(once_log[1].available_options)
                          <=> option_verdict(elements[i], str_buff(segments))
                                  = "keep"

\* C11 without the elements whose lookahead set is empty: there the claim
\* holds.
C11_AllOrNothingNonEmpty ==
    (\A i \in DOMAIN self.elements :
         opt_simple(self.elements[i]) # Simple(<<>>)) => C11_AllOrNothing

\* Where the last successful call of _match_once so far ended: what it left
\* unmatched (the whole input when no call succeeded).
AfterLastSuccess ==
    IF Successes = {} THEN segments
    ELSE once_log[CHOOSE i \in Successes : \A j \in Successes : j <= i]
             .m.unmatched_segments

\* C12: in every outcome with at least min_times repetitions, the segments
\* skipped before a repetition are matched only when that repetition
\* succeeds; when it fails they are the prefix of the remainder, so the
\* matched part ends where the last successful repetition ended and the
\* remainder starts there.
C12_SkippedTriviaPutBack ==
    (Done /\ n_matches >= self.min_times) =>
        /\ Returned.matched_segments \o Returned.unmatched_segments = segments
        /\ Returned.unmatched_segments = AfterLastSuccess
        /\ Returned.matched_segments = MatchedByLog(once_log)
        /\ \A i \in DOMAIN once_log \ Successes :
               /\ i = Len(once_log)
               /\ SubSeq(Returned.unmatched_segments, 1,
                         Len(once_log[i].pre_seg)) = once_log[i].pre_seg
               /\ Returned.unmatched_segments
                      = once_log[i].pre_seg \o once_log[i].segments
        /\ Successes # {} =>
               LET last == once_log[CHOOSE i \in Successes :
                                       \A j \in Successes : j <= i].m
               IN  Returned.matched_segments[Len(Returned.matched_segments)]
                       = last.matched_segments[Len(last.matched_segments)]

\* C12 witness: after one "a", two whitespaces are skipped and "b" does not
\* match; the whitespaces are the start of the remainder.
C12_Witness ==
    /\ Done /\ exit = 211 /\ n_matches = 1
    /\ segments = <<"a", " ", " ", "b">>
    /\ once_log[2].pre_seg = <<" ", " ">>
    /\ ~has_match(once_log[2].m)
    /\ Returned = MatchResult(<<"a">>, <<" ", " ", "b">>)

\* The pruning rule for element i of a grammar on the strings buff: its
\* lookahead is unsupported, or one of its candidates occurs in buff and is
\* pure whitespace or the first string of buff that is not whitespace.
Retained(elements, i, buff) ==
    LET s == opt_simple(elements[i])
    IN  \/ ~s.supported
        \/ \E j \in DOMAIN s.opts :
               /\ \E b \in DOMAIN buff : buff[b] = s.opts[j]
               /\ \/ \A ch \in DOMAIN s.opts[j] : IsSpace(s.opts[j][ch])
                  \/ s.opts[j] = FirstNonWhitespace(buff)

\* C13: _prune_options retains exactly the alternatives the pruning rule
\* names, in the order of declaration and each once; when it retains none,
\* _match_once fails without matching any alternative.
C13_PruningRule ==
    \A c \in DOMAIN once_log :
        LET e == once_log[c]
            avail == e.available_options
            buff == Flatten(e.segments)
        IN  /\ ~e.raised
            /\ \A i \in DOMAIN self.elements :
                   (\E k \in DOMAIN avail : avail[k] = i)
                       <=> Retained(self.elements, i, buff)
            /\ \A k \in DOMAIN avail : avail[k] \in DOMAIN self.elements
            /\ \A k, l \in DOMAIN avail : k < l => avail[k] < avail[l]
            /\ avail = <<>> =>
                   /\ e.tried = <<>>
                   /\ e.m = from_unmatched(e.segments)
            /\ Range(e.tried) \subseteq Range(avail)

\* C13 witness: "a" or ("b" or whitespace) on [a, " "] with allow_gaps: the
\* first call retains both alternatives (the second by its whitespace
\* candidate, which is not the first string), the second call is given no
\* segments, retains nothing and matches nothing.
C13_Witness ==
    /\ Done /\ self.elements = <<"A", "BorWS">> /\ self.allow_gaps
    /\ segments = <<"a", " ">>
    /\ Len(once_log) = 2
    /\ once_log[1].available_options = <<1, 2>>
    /\ once_log[2].segments = <<>>
    /\ once_log[2].available_options = <<>>
    /\ once_log[2].tried = <<>>
    /\ ~has_match(once_log[2].m)

IsPrefix(s, t) == Len(s) <= Len(t) /\ SubSeq(t, 1, Len(s)) = s

\* C14: what is matched only grows by appending, n_matches grows by one
\* with every successful call of _match_once and not otherwise, every call
\* is made on a later position than the calls before it, the calls made are
\* never revised, and a failed call ends the loop.
C14_NoBacktracking ==
    [][/\ IsPrefix(matched_segments.matched_segments,
                   matched_segments'.matched_segments)
       /\ IsPrefix(once_log, once_log')
       /\ Len(once_log') <= Len(once_log) + 1
       /\ IF Len(once_log') = Len(once_log) + 1
          THEN LET e == once_log'[Len(once_log')]
               IN  /\ pc = "loop"
                   /\ \A i \in DOMAIN once_log :
                          Len(e.before) < Len(once_log[i].before)
                   /\ IF has_match(e.m)
                      THEN /\ n_matches' = n_matches + 1
                           /\ pc' = "loop"
                           /\ matched_segments'.matched_segments
                                  = matched_segments.matched_segments
                                        \o e.pre_seg \o e.m.matched_segments
                      ELSE /\ n_matches' = n_matches
                           /\ pc' \in {"done", "raised"}
          ELSE n_matches' = n_matches]_vars

\* C14 witness: "a", "a b" or "b" at least twice on [a, b, " "]: the first
\* repetition takes the longer "a b", the second fails on the whitespace and
\* match fails, although "a" and then "b" would have been two repetitions.
C14_Witness ==
    /\ Done /\ exit = 216 /\ self.elements = <<"A", "AB", "B">>
    /\ self.min_times = 2 /\ ~self.allow_gaps
    /\ segments = <<"a", "b", " ">>
    /\ Len(once_log) = 2 /\ n_matches = 1
    /\ once_log[1].chosen = 2
    /\ once_log[1].m.matched_segments = <<"a", "b">>
    /\ ~has_match(once_log[2].m)
    /\ ~has_match(Returned)
    /\ LET first == opt_match("A", segments)
           second == opt_match("B", first.unmatched_segments)
       IN  has_match(first) /\ has_match(second)

\* What is left to do, as a number: it is 0 when match has returned.
Measure ==
    CASE pc = "start" -> Len(segments) + 2
      [] pc = "loop" -> Len(unmatched_segments) + 1
      [] OTHER -> 0

\* The calls of _match_once so far: a successful call left fewer segments
\* than the repetition started on, a failed call is the last one, and there
\* are no more calls than the input has segments, plus one.
BoundedCalls ==
    /\ Len(once_log) <= Len(segments) + 1
    /\ \A c \in DOMAIN once_log :
           LET e == once_log[c]
           IN  /\ has_match(e.m) =>
                      /\ Len(e.m.matched_segments) >= 1
                      /\ Len(e.m.unmatched_segments) < Len(e.before)
               /\ ~has_match(e.m) => c = Len(once_log) /\ pc # "loop"
    /\ pc = "loop" =>
           /\ Len(unmatched_segments) <= Len(segments) - n_matches
           /\ n_matches = Len(once_log)

\* C15: match returns on every input and with every configuration: every
\* step of match, and so every iteration of the loop that does not return,
\* leaves less to do (fewer segments unmatched), no step ends in an error,
\* and the calls of _match_once are bounded by the length of the input.
C15_Termination ==
    [][/\ Measure' < Measure
       /\ Measure' >= 0
       /\ pc' \in {"loop", "done"}
       /\ (Measure' = 0) = (pc' = "done" /\ result' # <<>>)
       /\ BoundedCalls']_vars

\* C15 witness: "a" any number of times (max_times unset) on five a's: one
\* call of _match_once per segment, and match has returned.
C15_Witness ==
    /\ Done /\ self.elements = <<"A">> /\ self.max_times = None
    /\ segments = <<"a", "a", "a", "a", "a">>
    /\ Len(once_log) = 5 /\ n_matches = 5
    /\ exit = 186

\* Candidate strings of lookahead sets: keywords, whitespace, a comment, a
\* keyword with whitespace around it, the empty string.
Candidates ==
    {KW_A, KW_B, WS, KW_SELECT, KW_INSERT, <<"-", "-">>, <<" ", "A", " ">>,
     <<" ", " ">>, <<>>}

\* C16: the RuntimeError of line 76 is never raised: not in any call of
\* _match_once of any run (also on no segments and on non-code segments
\* only), and for no candidate string on the segments of any call.
C16_ErrorUnreachable ==
    /\ pc # "raised"
    /\ \A c \in DOMAIN once_log :
           /\ ~once_log[c].raised
           /\ \A cand \in Candidates :
                  check_simple_opt(cand, str_buff(once_log[c].segments))
                      # "raise"

\* C16 witness: "a" on [" ", a]: the candidate A occurs in the strings and
\* is not whitespace, the anchor check finds A as the first string that is
\* not whitespace, and the option is kept.
C16_Witness ==
    /\ self.elements = <<"A">> /\ segments = <<" ", "a">>
    /\ Len(once_log) = 1
    /\ once_log[1].segments = <<" ", "a">>
    /\ KW_A \in Range(str_buff(once_log[1].segments))
    /\ strip(KW_A) # <<>>
    /\ ~once_log[1].raised
    /\ once_log[1].available_options = <<1>>

\* With a step for every with block, match returns what the function match
\* returns.
CtxIsMatch == Done => Returned = match(self, TRUE, segments)

\* C17: a child context is held exactly inside the with blocks of lines 167
\* and 125, so each is released before the next is acquired; the depth is
\* never more than one above the depth at entry, and when match returns
\* (also from inside the with block of line 167, and on a complete match)
\* every context acquired is released and the depth is that at entry.
C17_ContextScoping ==
    /\ ctx.depth = ctx.entry + ctx.acquired - ctx.released
    /\ ctx.depth = IF pc \in {"exclude_with", "opt_with"}
                   THEN ctx.entry + 1 ELSE ctx.entry
    /\ ctx.depth <= ctx.entry + 1
    /\ Done => /\ ctx.depth = ctx.entry
               /\ ctx.acquired = ctx.released
               /\ exit = 169 => ctx.acquired = 1
               /\ (self.exclude # NoExclude) => ctx.acquired >= 1

\* C17 witness: the exclude option was tried and did not match, an option
\* matched completely (the return of line 132), and match has returned:
\* two contexts or more were acquired, all are released.
C17_Witness ==
    /\ Done /\ exit = 186 /\ self.exclude # NoExclude
    /\ ctx.entry = 1 /\ ctx.depth = 1
    /\ is_complete(ctx.m) /\ has_match(ctx.m)
    /\ ctx.acquired >= 2 /\ ctx.released = ctx.acquired

\* C18: max_times = 0 is max_times unset: the return of line 178 is never
\* taken, the repetitions go on until one fails or the input is exhausted,
\* and match returns what it returns with the other of the two values.
C18_ZeroIsUnbounded ==
    (self.max_times \in {0, None}) =>
        /\ exit # 178
        /\ ~max_reached(self, n_matches)
        /\ Done =>
               /\ Returned = match([self EXCEPT !.max_times = 0], TRUE,
                                   segments)
               /\ Returned = match([self EXCEPT !.max_times = None], TRUE,
                                   segments)
               /\ exit \in {169, 186, 191, 211, 216}

\* C18 witness: "a" with max_times = 0 on [a, a, a]: three repetitions,
\* until the input is exhausted.
C18_Witness ==
    /\ Done /\ self.max_times = 0 /\ self.elements = <<"A">>
    /\ segments = <<"a", "a", "a">>
    /\ n_matches = 3 /\ exit = 186
    /\ Returned = MatchResult(<<"a", "a", "a">>, <<>>)

=============================================================================
